---- MODULE Spec2Model ----
(***************************************************************************)
(* A model of cpack: the pydantic models of src/cpack/__init__.py, their   *)
(* validation (Manifest.parse_obj / parse_raw), the cross-reference pass   *)
(* (Manifest.validate_types) and the minified output (dict() / json()).    *)
(*                                                                         *)
(* Python values are tagged records.  A dict is the sequence of its items  *)
(* in insertion order, a model instance is its class name with its         *)
(* __dict__.  The string operators work on the sequence of a str's         *)
(* characters.                                                             *)
(*                                                                         *)
(* Spec runs the schema test on one JSON document: clean_data (or not),    *)
(* parse_obj, dict(), json(), and parse_raw of what json() wrote.          *)
(* SpecPath offers one string to the RelPath and DepPath validators.       *)
(***************************************************************************)
EXTENDS Integers, Sequences, FiniteSets, TLC

VARIABLES
    data,      \* the input document, a JSON-like dict
    cleaned,   \* whether clean_data has been applied to data
    result,    \* what Manifest.parse_obj(data) returned or raised
    dumped,    \* manifest.dict()
    encoded,   \* manifest.json()
    reparsed,  \* what Manifest.parse_raw(encoded) returned or raised
    text,      \* a string offered to the path validators
    verdict,   \* what a path validator said of text
    pc         \* how far the run has come

vars == <<data, cleaned, result, dumped, encoded, reparsed, text, verdict, pc>>

(***************************************************************************)
(* Python values                                                           *)
(***************************************************************************)
PyNone == [t |-> "none"]
PyStr(s) == [t |-> "str", s |-> s]
PyInt(n) == [t |-> "int", n |-> n]
PyList(xs) == [t |-> "list", xs |-> xs]
PyDict(items) == [t |-> "dict", items |-> items]
Item(k, v) == [k |-> k, v |-> v]
Model(cls, items) == [t |-> "model", cls |-> cls, items |-> items]

IsStr(x) == x.t = "str"
IsInt(x) == x.t = "int"
IsDict(x) == x.t = "dict"
IsList(x) == x.t = "list"
IsNone(x) == x.t = "none"

Range(seq) == {seq[i] : i \in 1..Len(seq)}

\* The keys of a dict, in insertion order.
Keys(d) == [i \in 1..Len(d.items) |-> d.items[i].k]

\* key in d
Has(d, k) == \E i \in 1..Len(d.items) : d.items[i].k = k

\* d[key], for a key of d
Get(d, k) == d.items[CHOOSE i \in 1..Len(d.items) : d.items[i].k = k].v

\* d[key] = v: a new key is appended, a known key keeps its place.
SetItem(d, k, v) ==
    IF Has(d, k)
    THEN PyDict([i \in 1..Len(d.items) |->
                 IF d.items[i].k = k THEN Item(k, v) ELSE d.items[i]])
    ELSE PyDict(Append(d.items, Item(k, v)))

\* dict(items), built left to right: a repeated key keeps its first place
\* and takes its last value.
RECURSIVE FromItems(_)
FromItems(items) ==
    IF items = <<>> THEN PyDict(<<>>)
    ELSE SetItem(FromItems(SubSeq(items, 1, Len(items) - 1)),
                 items[Len(items)].k, items[Len(items)].v)

\* Python's ==: dicts and model instances compare as mappings (the order of
\* insertion does not count), lists in order, an int never equals a str.
RECURSIVE PyEq(_, _)
PyEq(a, b) ==
    IF a.t # b.t THEN FALSE
    ELSE CASE a.t = "none" -> TRUE
           [] a.t = "str" -> a.s = b.s
           [] a.t = "int" -> a.n = b.n
           [] a.t = "list" ->
                /\ Len(a.xs) = Len(b.xs)
                /\ \A i \in 1..Len(a.xs) : PyEq(a.xs[i], b.xs[i])
           [] a.t = "dict" ->
                /\ Len(a.items) = Len(b.items)
                /\ \A i \in 1..Len(a.items) :
                      \E j \in 1..Len(b.items) :
                         /\ PyEq(a.items[i].k, b.items[j].k)
                         /\ PyEq(a.items[i].v, b.items[j].v)
           [] OTHER -> FALSE

(***************************************************************************)
(* Characters and strings                                                  *)
(***************************************************************************)
Lower == {"a", "b", "c", "d", "e", "f", "g", "h", "i", "j", "k", "l", "m",
          "n", "o", "p", "q", "r", "s", "t", "u", "v", "w", "x", "y", "z"}
Upper == {"A", "B", "C", "D", "E", "F", "G", "H", "I", "J", "K", "L", "M",
          "N", "O", "P", "Q", "R", "S", "T", "U", "V", "W", "X", "Y", "Z"}
Digit == {"0", "1", "2", "3", "4", "5", "6", "7", "8", "9"}
HexDigit == Digit \cup {"a", "b", "c", "d", "e", "f", "A", "B", "C", "D", "E", "F"}

\* The characters of the model in code point order.
Ascii == <<"\n", " ", "+", "-", ".", "/",
           "0", "1", "2", "3", "4", "5", "6", "7", "8", "9", ":",
           "A", "B", "C", "D", "E", "F", "G", "H", "I", "J", "K", "L", "M",
           "N", "O", "P", "Q", "R", "S", "T", "U", "V", "W", "X", "Y", "Z",
           "_",
           "a", "b", "c", "d", "e", "f", "g", "h", "i", "j", "k", "l", "m",
           "n", "o", "p", "q", "r", "s", "t", "u", "v", "w", "x", "y", "z">>

\* ord(c), up to an order-preserving renumbering.
Ord(c) == CHOOSE i \in 1..Len(Ascii) : Ascii[i] = c

\* s < t for two strs: the first differing character decides, a proper
\* prefix comes first.
StrLess(s, u) ==
    \/ /\ Len(s) < Len(u)
       /\ \A i \in 1..Len(s) : s[i] = u[i]
    \/ \E i \in 1..Len(s) :
          /\ i <= Len(u)
          /\ \A j \in 1..(i - 1) : s[j] = u[j]
          /\ Ord(s[i]) < Ord(u[i])

\* s.startswith(p)
StartsWith(s, p) == Len(s) >= Len(p) /\ SubSeq(s, 1, Len(p)) = p

\* s.split(sep)[0] for a one-character sep
SplitFirst(s, sep) ==
    IF \E i \in 1..Len(s) : s[i] = sep
    THEN SubSeq(s, 1, (CHOOSE i \in 1..Len(s) :
                          s[i] = sep /\ \A j \in 1..(i - 1) : s[j] # sep) - 1)
    ELSE s

\* The positions at which a pattern's final $ matches: the end of the
\* string, and just before a newline that ends it.
DollarEnds(s) ==
    {Len(s)} \cup (IF Len(s) > 0 /\ s[Len(s)] = "\n" THEN {Len(s) - 1} ELSE {})

AllIn(s, from, to, chars) == \A i \in from..to : s[i] \in chars

\* The characters of a string literal.
Chars(str) == [i \in 1..Len(str) |-> SubSeq(str, i, i)]

\* The string of a sequence of characters.
RECURSIVE Join(_)
Join(cs) == IF cs = <<>> THEN "" ELSE Head(cs) \o Join(Tail(cs))

\* The str of a string literal.
S(str) == PyStr(str)

\* str(n) and int.__repr__(n): the decimal digits, a minus sign before a
\* negative number.
DigitChar(d) == Ascii[Ord("0") + d]

RECURSIVE NatRepr(_)
NatRepr(n) ==
    IF n < 10 THEN <<DigitChar(n)>>
    ELSE Append(NatRepr(n \div 10), DigitChar(n % 10))

IntRepr(n) == IF n < 0 THEN <<"-">> \o NatRepr(0 - n) ELSE NatRepr(n)

DigitValue(c) == Ord(c) - Ord("0")

RECURSIVE NatValue(_)
NatValue(ds) ==
    IF ds = <<>> THEN 0
    ELSE 10 * NatValue(SubSeq(ds, 1, Len(ds) - 1)) + DigitValue(ds[Len(ds)])

\* s.strip() of the blanks of the model
RECURSIVE Strip(_)
Strip(s) ==
    IF s = <<>> THEN s
    ELSE IF s[1] \in {" ", "\n"} THEN Strip(Tail(s))
    ELSE IF s[Len(s)] \in {" ", "\n"} THEN Strip(SubSeq(s, 1, Len(s) - 1))
    ELSE s

\* The digits int() reads: at least one, single underscores only between
\* two digits.
IsDigits(ds) ==
    /\ Len(ds) >= 1
    /\ ds[1] \in Digit
    /\ ds[Len(ds)] \in Digit
    /\ \A i \in 1..Len(ds) : ds[i] \in Digit \cup {"_"}
    /\ \A i \in 1..(Len(ds) - 1) : ~(ds[i] = "_" /\ ds[i + 1] = "_")

Unsigned(s) == IF s # <<>> /\ s[1] \in {"+", "-"} THEN Tail(s) ELSE s

\* Whether int(s) returns for a str s, and what.
IntParses(s) == IsDigits(Unsigned(Strip(s)))

IntOf(s) ==
    LET u == Strip(s)
        ds == SelectSeq(Unsigned(u), LAMBDA c : c # "_")
    IN  IF u[1] = "-" THEN 0 - NatValue(ds) ELSE NatValue(ds)

(***************************************************************************)
(* Constrained strings                                                     *)
(***************************************************************************)
NameChars == Lower \cup Upper \cup Digit \cup {"-", "_"}
PathChars == Lower \cup Upper \cup Digit \cup {".", "/"}

NameMinLength == 1
PathMinLength == 1
AddressLength == 42

\* Name.regex: "^[-A-Za-z0-9_]*$"
NameRegex(s) == \E n \in DollarEnds(s) : AllIn(s, 1, n, NameChars)

\* DepPath.regex: "^[A-Za-z0-9\./]*\.[a-z]*$"
DepPathRegex(s) ==
    \E n \in DollarEnds(s) : \E i \in 1..n :
       /\ s[i] = "."
       /\ AllIn(s, 1, i - 1, PathChars)
       /\ AllIn(s, i + 1, n, Lower)

\* RelPath.regex: "^\./[A-Za-z0-9\./]*\.[a-z]*$"
RelPathRegex(s) ==
    \E n \in DollarEnds(s) : \E i \in 3..n :
       /\ s[1] = "."
       /\ s[2] = "/"
       /\ s[i] = "."
       /\ AllIn(s, 3, i - 1, PathChars)
       /\ AllIn(s, i + 1, n, Lower)

\* Address.regex: "^0x[A-Fa-f0-9]{40}$"
AddressRegex(s) ==
    \E n \in DollarEnds(s) :
       /\ n = AddressLength
       /\ s[1] = "0"
       /\ s[2] = "x"
       /\ AllIn(s, 3, n, HexDigit)

\* ConstrainedStr: the length bounds, then the regex.
IsName(s) == Len(s) >= NameMinLength /\ NameRegex(s)
IsDepPath(s) == Len(s) >= PathMinLength /\ DepPathRegex(s)
IsRelPath(s) == Len(s) >= PathMinLength /\ RelPathRegex(s)
IsAddress(s) ==
    /\ Len(s) >= AddressLength
    /\ Len(s) <= AddressLength
    /\ AddressRegex(s)

\* AnyUrl, as far as the model needs it: a scheme of two characters or
\* more, "://", and a host.
SchemeChars == Lower \cup Upper \cup Digit \cup {"+", "-", "."}
HostChars == NameChars \cup {"."}

IsUrl(s) ==
    \E i \in 3..(Len(s) - 3) :
       /\ s[i] = ":"
       /\ s[i + 1] = "/"
       /\ s[i + 2] = "/"
       /\ s[1] \in Lower \cup Upper
       /\ AllIn(s, 2, i - 1, SchemeChars)
       /\ s[i + 3] \in HostChars
       /\ AllIn(s, i + 3, Len(s), HostChars \cup {"/"})

(***************************************************************************)
(* Field types and the fields of each model                                *)
(***************************************************************************)
TStr == [kind |-> "str"]
TName == [kind |-> "Name"]
TRelPath == [kind |-> "RelPath"]
TDepPath == [kind |-> "DepPath"]
TAddress == [kind |-> "Address"]
TUrl == [kind |-> "AnyUrl"]
TInt == [kind |-> "int"]
TDict == [kind |-> "dict"]
TLiteral(str) == [kind |-> "Literal", value |-> S(str)]
TList(elem) == [kind |-> "list", elem |-> elem]
TMapping(key, val) == [kind |-> "mapping", key |-> key, val |-> val]
TUnion(first, second) == [kind |-> "Union", first |-> first, second |-> second]
TModel(cls) == [kind |-> "model", cls |-> cls]

\* A required field, a field with a default, and a field `T | None = None`.
Required(name, type) ==
    [name |-> S(name), required |-> TRUE, default |-> PyNone,
     allow_none |-> FALSE, type |-> type]
Defaulted(name, type, default) ==
    [name |-> S(name), required |-> FALSE, default |-> default,
     allow_none |-> FALSE, type |-> type]
Optional(name, type) ==
    [name |-> S(name), required |-> FALSE, default |-> PyNone,
     allow_none |-> TRUE, type |-> type]

ChecksumFields ==
    << Required("algorithm", TStr),
       Required("hash", TStr) >>

LinkFields ==
    << Required("uri", TUrl),
       Optional("checksum", TModel("Checksum")) >>

ContractTypeFields ==
    << Required("compiler", TName),
       Defaulted("sources", TList(TUnion(TRelPath, TDepPath)), PyList(<<>>)),
       Defaulted("deployments", TMapping(TInt, TList(TAddress)), PyDict(<<>>)),
       Optional("output", TModel("Link")) >>

SourceFields ==
    << Required("link", TModel("Link")) >>

CompilerFields ==
    << Required("bin", TModel("Link")),
       Defaulted("settings", TDict, PyDict(<<>>)) >>

ManifestFields ==
    << Required("manifest", TLiteral("cpack/v1")),
       Defaulted("name", TStr, S("")),
       Defaulted("metadata", TDict, PyDict(<<>>)),
       Defaulted("types", TMapping(TName, TModel("ContractType")), PyDict(<<>>)),
       Defaulted("sources", TMapping(TRelPath, TModel("Source")), PyDict(<<>>)),
       Defaulted("compilers", TMapping(TName, TModel("Compiler")), PyDict(<<>>)),
       Defaulted("dependencies", TMapping(TName, TModel("Link")), PyDict(<<>>)) >>

Fields(cls) ==
    CASE cls = "Checksum" -> ChecksumFields
      [] cls = "Link" -> LinkFields
      [] cls = "ContractType" -> ContractTypeFields
      [] cls = "Source" -> SourceFields
      [] cls = "Compiler" -> CompilerFields
      [] cls = "Manifest" -> ManifestFields

\* A Source that ignores extra fields like the other models.
ExtraAllowedNowhere(cls) == FALSE

\* Config.extra: Source allows extra fields, the other models ignore them.
ExtraAllowed(cls) == cls = "Source"

FieldNames(cls) == {Fields(cls)[i].name : i \in 1..Len(Fields(cls))}

(***************************************************************************)
(* Validation                                                              *)
(***************************************************************************)
Ok(v) == [ok |-> TRUE, v |-> v]
Err == [ok |-> FALSE, v |-> PyNone]

\* pydantic's str_validator: a str as it is, a number as its str().
StrValidator(v) ==
    IF IsStr(v) THEN Ok(v)
    ELSE IF IsInt(v) THEN Ok(PyStr(Join(IntRepr(v.n))))
    ELSE Err

\* pydantic's int_validator: an int as it is, otherwise int(v).
IntValidator(v) ==
    IF IsInt(v) THEN Ok(v)
    ELSE IF IsStr(v) /\ IntParses(Chars(v.s)) THEN Ok(PyInt(IntOf(Chars(v.s))))
    ELSE Err

\* ConstrainedStr.validate: the value as a str, then the constraints.
ValidateName(v) ==
    LET r == StrValidator(v)
    IN  IF r.ok /\ IsName(Chars(r.v.s)) THEN r ELSE Err

ValidateRelPathStr(v) ==
    LET r == StrValidator(v)
    IN  IF r.ok /\ IsRelPath(Chars(r.v.s)) THEN r ELSE Err

ValidateDepPathStr(v) ==
    LET r == StrValidator(v)
    IN  IF r.ok /\ IsDepPath(Chars(r.v.s)) THEN r ELSE Err

ValidateAddress(v) ==
    LET r == StrValidator(v)
    IN  IF r.ok /\ IsAddress(Chars(r.v.s)) THEN r ELSE Err

\* AnyUrl: a str that is a URL.
ValidateUrl(v) == IF IsStr(v) /\ IsUrl(Chars(v.s)) THEN Ok(v) ELSE Err

RECURSIVE Validate(_, _)
RECURSIVE FieldValues(_, _, _)

\* Extra.allow: the input's other keys are kept with their values.  (The
\* code walks them as a set; the model keeps the input's order, which
\* neither == nor the sorted output reads.)
WithExtras(cls, values, input) ==
    IF ExtraAllowed(cls)
    THEN PyDict(values.items \o
                SelectSeq(input.items, LAMBDA it : it.k \notin FieldNames(cls)))
    ELSE values

\* BaseModel.validate of a nested model: a dict, every field of which
\* validates.
ValidateModel(cls, v) ==
    IF ~IsDict(v) THEN Err
    ELSE LET fv == FieldValues(cls, v, Len(Fields(cls)))
         IN  IF fv.errors THEN Err
             ELSE Ok(Model(cls, WithExtras(cls, fv.values, v).items))

ValidateList(type, v) ==
    IF ~IsList(v) THEN Err
    ELSE LET rs == [i \in 1..Len(v.xs) |-> Validate(type.elem, v.xs[i])]
         IN  IF \A i \in 1..Len(rs) : rs[i].ok
             THEN Ok(PyList([i \in 1..Len(rs) |-> rs[i].v]))
             ELSE Err

\* A typed dict: every key and every value validates, and the result is
\* built from the validated keys.
ValidateMapping(type, v) ==
    IF ~IsDict(v) THEN Err
    ELSE LET ks == [i \in 1..Len(v.items) |-> Validate(type.key, v.items[i].k)]
             vs == [i \in 1..Len(v.items) |-> Validate(type.val, v.items[i].v)]
         IN  IF \A i \in 1..Len(v.items) : ks[i].ok /\ vs[i].ok
             THEN Ok(FromItems([i \in 1..Len(v.items) |-> Item(ks[i].v, vs[i].v)]))
             ELSE Err

Validate(type, v) ==
    CASE type.kind = "str" -> StrValidator(v)
      [] type.kind = "Name" -> ValidateName(v)
      [] type.kind = "RelPath" -> ValidateRelPathStr(v)
      [] type.kind = "DepPath" -> ValidateDepPathStr(v)
      [] type.kind = "Address" -> ValidateAddress(v)
      [] type.kind = "AnyUrl" -> ValidateUrl(v)
      [] type.kind = "int" -> IntValidator(v)
      [] type.kind = "dict" -> IF IsDict(v) THEN Ok(v) ELSE Err
      [] type.kind = "Literal" -> IF v = type.value THEN Ok(v) ELSE Err
      [] type.kind = "list" -> ValidateList(type, v)
      [] type.kind = "mapping" -> ValidateMapping(type, v)
      [] type.kind = "Union" ->
           LET first == Validate(type.first, v)
           IN  IF first.ok THEN first ELSE Validate(type.second, v)
      [] type.kind = "model" -> ValidateModel(type.cls, v)

\* One field: None only where the field allows it.
ValidateField(f, v) ==
    IF IsNone(v)
    THEN IF f.allow_none THEN Ok(PyNone) ELSE Err
    ELSE Validate(f.type, v)

\* validate_model's loop over the first n fields of cls: the values that
\* validated (a missing field takes its default), and whether any field
\* failed.  A field that fails has no entry in the values.
FieldValues(cls, input, n) ==
    IF n = 0 THEN [values |-> PyDict(<<>>), errors |-> FALSE]
    ELSE LET prev == FieldValues(cls, input, n - 1)
             f == Fields(cls)[n]
         IN  IF ~Has(input, f.name)
             THEN IF f.required
                  THEN [values |-> prev.values, errors |-> TRUE]
                  ELSE [values |-> SetItem(prev.values, f.name, f.default),
                        errors |-> prev.errors]
             ELSE LET r == ValidateField(f, Get(input, f.name))
                  IN  IF r.ok
                      THEN [values |-> SetItem(prev.values, f.name, r.v),
                            errors |-> prev.errors]
                      ELSE [values |-> prev.values, errors |-> TRUE]

\* The attribute of a model instance, the value of a key of a dict.
Attr(m, name) == Get(m, S(name))

(***************************************************************************)
(* Manifest.validate_types, the cross-reference pass                       *)
(***************************************************************************)
\* The first exception of a run of steps, "none" when none raises.
FirstRaise(outcomes) ==
    IF \E i \in 1..Len(outcomes) : outcomes[i] # "none"
    THEN outcomes[CHOOSE i \in 1..Len(outcomes) :
                     /\ outcomes[i] # "none"
                     /\ \A j \in 1..(i - 1) : outcomes[j] = "none"]
    ELSE "none"

\* The membership assertion left out.
AssertInUnchecked(key, values, section) ==
    IF ~Has(values, S(section)) THEN "KeyError" ELSE "none"

\* assert key in data[section]
AssertIn(key, values, section) ==
    IF ~Has(values, S(section)) THEN "KeyError"
    ELSE IF Has(Attr(values, section), key) THEN "none"
    ELSE "AssertionError"

\* Only the local paths looked up.
CheckSourceLocalOnly(values, src) ==
    IF StartsWith(Chars(src.s), Chars("./"))
    THEN AssertIn(src, values, "sources")
    ELSE "none"

CheckSource(values, src) ==
    IF StartsWith(Chars(src.s), Chars("./"))
    THEN AssertIn(src, values, "sources")
    ELSE IF "/" \notin Range(Chars(src.s)) THEN "AssertionError"
    ELSE AssertIn(PyStr(Join(SplitFirst(Chars(src.s), "/"))), values,
                  "dependencies")

CheckType(values, ct) ==
    FirstRaise(<<AssertIn(Attr(ct, "compiler"), values, "compilers")>> \o
               [i \in 1..Len(Attr(ct, "sources").xs) |->
                   CheckSource(values, Attr(ct, "sources").xs[i])])

validate_types(values) ==
    IF Has(values, S("types"))
    THEN LET types == Attr(values, "types").items
         IN  FirstRaise([i \in 1..Len(types) |-> CheckType(values, types[i].v)])
    ELSE "none"

(***************************************************************************)
(* Manifest.parse_obj                                                      *)
(***************************************************************************)
Raised(exc) == [kind |-> exc, m |-> PyNone]
Returned(m) == [kind |-> "Manifest", m |-> m]

\* The fields are validated, then the root validator runs on the values
\* that validated, whether or not a field failed.  An AssertionError of
\* the root validator is one more validation error; any other exception
\* leaves parse_obj as it is.
parse_obj(obj) ==
    IF ~IsDict(obj) THEN Raised("ValidationError")
    ELSE LET fv == FieldValues("Manifest", obj, Len(ManifestFields))
             values == WithExtras("Manifest", fv.values, obj)
             raised == validate_types(values)
         IN  IF raised = "KeyError" THEN Raised("KeyError")
             ELSE IF fv.errors \/ raised = "AssertionError"
             THEN Raised("ValidationError")
             ELSE Returned(Model("Manifest", values.items))

(***************************************************************************)
(* BaseModel.dict and BaseModel.json                                       *)
(***************************************************************************)
IsField(cls, name) == name \in FieldNames(cls)

FieldOf(cls, name) ==
    Fields(cls)[CHOOSE i \in 1..Len(Fields(cls)) : Fields(cls)[i].name = name]

\* exclude_defaults not set.
HoldsDefaultNever(cls, it) == FALSE

\* exclude_defaults: a declared field that is not required and holds its
\* default is left out.  An extra field has no default and stays.
HoldsDefault(cls, it) ==
    /\ IsField(cls, it.k)
    /\ ~FieldOf(cls, it.k).required
    /\ PyEq(FieldOf(cls, it.k).default, it.v)

RECURSIVE dict(_)
RECURSIVE GetValue(_)

\* BaseModel._get_value: a model as its dict(), a dict and a list with
\* their values converted, anything else as it is.
GetValue(v) ==
    CASE v.t = "model" -> dict(v)
      [] v.t = "dict" ->
           PyDict([i \in 1..Len(v.items) |->
                     Item(v.items[i].k, GetValue(v.items[i].v))])
      [] v.t = "list" -> PyList([i \in 1..Len(v.xs) |-> GetValue(v.xs[i])])
      [] OTHER -> v

\* dict(): exclude_defaults is always set.
dict(m) ==
    LET kept == SelectSeq(m.items, LAMBDA it : ~HoldsDefault(m.cls, it))
    IN  PyDict([i \in 1..Len(kept) |-> Item(kept[i].k, GetValue(kept[i].v))])

\* JSON text, as the tree of its tokens: an object is the sequence of its
\* members as written, a member's key is the string between the quotes.
JNull == [j |-> "null"]
JString(s) == [j |-> "string", s |-> s]
JNumber(n) == [j |-> "number", n |-> n]
JArray(xs) == [j |-> "array", xs |-> xs]
JObject(members) == [j |-> "object", members |-> members]
Member(k, v) == [k |-> k, v |-> v]

\* sorted() on the keys of one dict: ints by value, strs by code point.
KeyLess(a, b) ==
    IF IsInt(a) /\ IsInt(b) THEN a.n < b.n
    ELSE IF IsStr(a) /\ IsStr(b) THEN StrLess(Chars(a.s), Chars(b.s))
    ELSE FALSE

\* sort_keys not set.
Unsorted(items) == items

RECURSIVE SortedItems(_)
SortedItems(items) ==
    IF items = <<>> THEN <<>>
    ELSE LET rest == SortedItems(Tail(items))
             x == Head(items)
             before == SelectSeq(rest, LAMBDA it : KeyLess(it.k, x.k))
             after == SelectSeq(rest, LAMBDA it : ~KeyLess(it.k, x.k))
         IN  before \o <<x>> \o after

\* The sign of an int key dropped.
JsonKeyUnsigned(k) ==
    IF IsInt(k) THEN Join(NatRepr(IF k.n < 0 THEN 0 - k.n ELSE k.n)) ELSE k.s

\* The key json.dumps writes: a str as it is, an int as its digits.
JsonKey(k) == IF IsInt(k) THEN Join(IntRepr(k.n)) ELSE k.s

\* json.dumps(v, sort_keys=True, separators=(",", ":"))
RECURSIVE JsonDumps(_)
JsonDumps(v) ==
    CASE v.t = "dict" ->
           LET items == SortedItems(v.items)
           IN  JObject([i \in 1..Len(items) |->
                          Member(JsonKey(items[i].k), JsonDumps(items[i].v))])
      [] v.t = "list" -> JArray([i \in 1..Len(v.xs) |-> JsonDumps(v.xs[i])])
      [] v.t = "str" -> JString(v.s)
      [] v.t = "int" -> JNumber(v.n)
      [] v.t = "none" -> JNull

\* json(): sort_keys and exclude_defaults are always set.
json(m) == JsonDumps(dict(m))

\* json.loads: an object becomes a dict of str keys in the order written,
\* a repeated key takes its last value.
RECURSIVE JsonLoads(_)
JsonLoads(x) ==
    CASE x.j = "object" ->
           FromItems([i \in 1..Len(x.members) |->
                        Item(PyStr(x.members[i].k), JsonLoads(x.members[i].v))])
      [] x.j = "array" -> PyList([i \in 1..Len(x.xs) |-> JsonLoads(x.xs[i])])
      [] x.j = "string" -> PyStr(x.s)
      [] x.j = "number" -> PyInt(x.n)
      [] x.j = "null" -> PyNone

parse_raw(b) == parse_obj(JsonLoads(b))

\* BaseModel.__eq__: two models are equal when their dict()s are.
ModelEq(a, b) == PyEq(dict(a), dict(b))

(***************************************************************************)
(* clean_data of the schema test                                           *)
(***************************************************************************)
\* bool(v)
Truthy(v) ==
    CASE v.t = "none" -> FALSE
      [] v.t = "str" -> v.s # ""
      [] v.t = "int" -> v.n # 0
      [] v.t = "list" -> v.xs # <<>>
      [] v.t = "dict" -> v.items # <<>>

\* A source entry keeps a non-empty key and a dict, the dict only its
\* declared fields.
CleanSources(sources) ==
    LET kept == SelectSeq(sources.items,
                          LAMBDA it : Truthy(it.k) /\ IsDict(it.v))
    IN  PyDict([i \in 1..Len(kept) |->
                  Item(kept[i].k,
                       PyDict(SelectSeq(kept[i].v.items,
                                        LAMBDA f : IsField("Source", f.k))))])

\* An empty compiler entry is deleted, and so are the empty values of the
\* others.
CleanCompilers(compilers) ==
    LET kept == SelectSeq(compilers.items, LAMBDA it : Truthy(it.v))
    IN  PyDict([i \in 1..Len(kept) |->
                  Item(kept[i].k,
                       PyDict(SelectSeq(kept[i].v.items,
                                        LAMBDA f : Truthy(f.v))))])

SkippedWhenEmpty ==
    {S("compilers"), S("dependencies"), S("sources"), S("types"), S("name"),
     S("metadata")}

clean_data(d) ==
    LET declared == PyDict(SelectSeq(d.items,
                                     LAMBDA it : IsField("Manifest", it.k)))
        sources ==
            IF Has(declared, S("sources"))
            THEN SetItem(declared, S("sources"),
                         CleanSources(Get(declared, S("sources"))))
            ELSE declared
        compilers ==
            IF Has(sources, S("compilers"))
            THEN SetItem(sources, S("compilers"),
                         CleanCompilers(Get(sources, S("compilers"))))
            ELSE sources
    IN  PyDict(SelectSeq(compilers.items,
                         LAMBDA it : ~(it.k \in SkippedWhenEmpty /\ ~Truthy(it.v))))

(***************************************************************************)
(* The input documents                                                     *)
(***************************************************************************)
MaxSources == 2
MaxChains == 2
MaxLen == 4

\* One item of a document, and a section that may be absent.
Entry(k, v) == <<Item(S(k), v)>>
Absent == <<>>

\* The sequences over X of length at most n, and those without repeats.
SeqsUpTo(X, n) == UNION {[1..m -> X] : m \in 0..n}
DistinctSeqsUpTo(X, n) ==
    {q \in SeqsUpTo(X, n) : \A i, j \in 1..Len(q) : q[i] = q[j] => i = j}

Reverse(q) == [i \in 1..Len(q) |-> q[Len(q) + 1 - i]]

GoodLink == PyDict(Entry("uri", S("ipfs://Qm")))
BadLink == PyDict(Entry("uri", S("Qm")))
LinkNoChecksum == PyDict(Entry("uri", S("ipfs://Qm")) \o Entry("checksum", PyNone))
LinkWithChecksum ==
    PyDict(Entry("uri", S("ipfs://Qm")) \o
           Entry("checksum", PyDict(Entry("algorithm", S("sha256")) \o
                                    Entry("hash", S("abcd1234")))))

GoodCompiler == PyDict(Entry("bin", GoodLink))
GoodSource == PyDict(Entry("link", GoodLink))
GoodAddress == S("0x0123456789abcdefABCDEF0123456789abcdefAB")

Tag == Entry("manifest", S("cpack/v1"))
ContractTypeOf(compiler, rest) == PyDict(Entry("compiler", S(compiler)) \o rest)
OneType(ct) == Entry("types", PyDict(Entry("T", ct)))
OneCompiler == Entry("compilers", PyDict(Entry("c", GoodCompiler)))

\* Cross references: one contract type naming compiler "c" and up to
\* MaxSources paths (local, under a dependency, without a "/", and one
\* that is no path), against sections that declare the names, declare
\* other names, fail their own validation, or are absent.
SourcePaths ==
    {S("./a.s"), S("depA/a.s"), S("depA/x/a.s"), S("a.s"), S("./a")}

CompilerSections ==
    { Absent,
      OneCompiler,
      Entry("compilers", PyDict(Entry("c", PyDict(<<>>)))),
      Entry("compilers", PyDict(Entry("d", GoodCompiler))) }

SourceSections ==
    { Absent,
      Entry("sources", PyDict(Entry("./a.s", GoodSource))),
      Entry("sources", PyDict(Entry("./a.s", PyDict(<<>>)))),
      Entry("sources", PyDict(Entry("./b.s", GoodSource))) }

DependencySections ==
    { Absent,
      Entry("dependencies", PyDict(Entry("depA", GoodLink))),
      Entry("dependencies", PyDict(Entry("depA", BadLink))),
      Entry("dependencies", PyDict(Entry("depB", GoodLink))) }

TypeSections ==
    {Absent} \cup
    { OneType(ContractTypeOf("c", Entry("sources", PyList(paths)))) :
         paths \in SeqsUpTo(SourcePaths, MaxSources) }

CrossRefDocuments ==
    { PyDict(Tag \o t \o s \o c \o d) :
         t \in TypeSections, s \in SourceSections,
         c \in CompilerSections, d \in DependencySections }

\* Two contract types, and a manifest tag that is wrong or missing.
TwoTypeDocuments ==
    { PyDict(Tag \o
             Entry("types", PyDict(Entry("T", ContractTypeOf(n1, Absent)) \o
                                   Entry("U", ContractTypeOf(n2, Absent)))) \o c) :
         n1 \in {"c", "d"}, n2 \in {"c", "d"},
         c \in CompilerSections \cup
               { Entry("compilers", PyDict(Entry("c", GoodCompiler) \o
                                           Entry("d", GoodCompiler))) } }

TagDocuments ==
    { PyDict(tag \o t \o c) :
         tag \in {Absent, Entry("manifest", S("dpm/v1"))},
         t \in {Absent, OneType(ContractTypeOf("c", Absent))},
         c \in {Absent, OneCompiler} }

\* Fields at and away from their defaults, and fields the models do not
\* declare, at the top level and inside the entries.
NameFields == {Absent, Entry("name", S("")), Entry("name", S("pkg"))}

MetadataFields ==
    { Absent,
      Entry("metadata", PyDict(<<>>)),
      Entry("metadata", PyDict(Entry("k", S("v")))) }

ExtensionFields == {Absent, Entry("x-ext", S("v"))}

SourceFieldSections ==
    { Absent,
      Entry("sources", PyDict(<<>>)),
      Entry("sources", PyDict(Entry("./a.s", GoodSource))),
      Entry("sources", PyDict(Entry("./a.s",
          PyDict(Entry("link", GoodLink) \o Entry("license", S("MIT")))))),
      Entry("sources", PyDict(Entry("./a.s",
          PyDict(Entry("link", LinkNoChecksum))))) }

CompilerFieldSections ==
    { OneCompiler,
      Entry("compilers", PyDict(Entry("c",
          PyDict(Entry("bin", GoodLink) \o Entry("settings", PyDict(<<>>)))))),
      Entry("compilers", PyDict(Entry("c",
          PyDict(Entry("bin", GoodLink) \o
                 Entry("settings", PyDict(Entry("optimize", PyInt(1)))))))),
      Entry("compilers", PyDict(Entry("c",
          PyDict(Entry("bin", GoodLink) \o Entry("vendor", S("v")))))) }

DependencyFieldSections ==
    { Absent,
      Entry("dependencies", PyDict(<<>>)) }

FieldDocuments ==
    { PyDict(Tag \o n \o m \o OneType(ContractTypeOf("c", Absent)) \o s \o c \o d \o x) :
         n \in NameFields, m \in MetadataFields, s \in SourceFieldSections,
         c \in CompilerFieldSections, d \in DependencyFieldSections,
         x \in ExtensionFields }

\* Deployments: up to MaxChains chain ids as JSON writes them, each with
\* the same list of addresses.
ChainKeys == {"1", "-1", "x", "10", "2"}

AddressLists ==
    { PyList(<<>>), PyList(<<GoodAddress>>), PyList(<<S("0xABC")>>) }

DeploymentFields ==
    {Absent} \cup
    { Entry("deployments",
            PyDict([i \in 1..Len(ks) |-> Item(S(ks[i]), addresses)])) :
         ks \in DistinctSeqsUpTo(ChainKeys, MaxChains),
         addresses \in AddressLists }

OutputFields ==
    { Absent,
      Entry("output", PyNone),
      Entry("output", GoodLink),
      Entry("output", LinkWithChecksum) }

DeploymentDocuments ==
    { PyDict(Tag \o OneType(ContractTypeOf("c", dep \o out)) \o OneCompiler) :
         dep \in DeploymentFields, out \in OutputFields }

\* One manifest written in every order of insertion of its mappings.
Orders(items) == {items, Reverse(items)}

OrderDocuments ==
    { PyDict(top) :
       top \in UNION
         { Orders(Tag \o
                  Entry("metadata", PyDict(md)) \o
                  OneType(ContractTypeOf("c", Entry("deployments", PyDict(dep)))) \o
                  Entry("sources", PyDict(Entry("./a.s", PyDict(src)))) \o
                  Entry("compilers", PyDict(cs))) :
             md \in Orders(Entry("b", S("1")) \o Entry("a", S("2"))),
             dep \in Orders(Entry("2", PyList(<<>>)) \o
                            Entry("10", PyList(<<GoodAddress>>))),
             src \in Orders(Entry("link", GoodLink) \o Entry("license", S("MIT"))),
             cs \in Orders(Entry("c", GoodCompiler) \o Entry("d", GoodCompiler)) } }

Documents ==
    CrossRefDocuments \cup TwoTypeDocuments \cup TagDocuments \cup
    FieldDocuments \cup DeploymentDocuments \cup OrderDocuments

\* The strings offered to the path validators.
PathAlphabet == {".", "/", "a", "B", "1", "-", "\n"}
Texts == {Join(q) : q \in SeqsUpTo(PathAlphabet, MaxLen)}

(***************************************************************************)
(* The runs                                                                *)
(***************************************************************************)
NoResult == [kind |-> "none", m |-> PyNone]
NoVerdict == [type |-> "none", ok |-> FALSE]

Init ==
    /\ data \in Documents
    /\ cleaned = FALSE
    /\ result = NoResult
    /\ dumped = PyNone
    /\ encoded = JNull
    /\ reparsed = NoResult
    /\ text = ""
    /\ verdict = NoVerdict
    /\ pc = "input"

\* data = clean_data(data)
CallCleanData ==
    /\ pc = "input"
    /\ ~cleaned
    /\ data' = clean_data(data)
    /\ cleaned' = TRUE
    /\ UNCHANGED <<result, dumped, encoded, reparsed, text, verdict, pc>>

\* manifest = Manifest.parse_obj(data)
CallParseObj ==
    /\ pc = "input"
    /\ result' = parse_obj(data)
    /\ pc' = "decoded"
    /\ UNCHANGED <<data, cleaned, dumped, encoded, reparsed, text, verdict>>

\* manifest.dict()
CallDict ==
    /\ pc = "decoded"
    /\ result.kind = "Manifest"
    /\ dumped' = dict(result.m)
    /\ pc' = "dumped"
    /\ UNCHANGED <<data, cleaned, result, encoded, reparsed, text, verdict>>

\* manifest.json()
CallJson ==
    /\ pc = "dumped"
    /\ encoded' = json(result.m)
    /\ pc' = "encoded"
    /\ UNCHANGED <<data, cleaned, result, dumped, reparsed, text, verdict>>

\* Manifest.parse_raw(manifest.json())
CallParseRaw ==
    /\ pc = "encoded"
    /\ reparsed' = parse_raw(encoded)
    /\ pc' = "reparsed"
    /\ UNCHANGED <<data, cleaned, result, dumped, encoded, text, verdict>>

Next == CallCleanData \/ CallParseObj \/ CallDict \/ CallJson \/ CallParseRaw

Spec == Init /\ [][Next]_vars

\* The path validators on one string.
InitPath ==
    /\ data = PyDict(<<>>)
    /\ cleaned = FALSE
    /\ result = NoResult
    /\ dumped = PyNone
    /\ encoded = JNull
    /\ reparsed = NoResult
    /\ text \in Texts
    /\ verdict = NoVerdict
    /\ pc = "text"

\* RelPath, as a key of Manifest.sources
ValidateRelPath ==
    /\ pc = "text"
    /\ verdict' = [type |-> "RelPath", ok |-> Validate(TRelPath, PyStr(text)).ok]
    /\ pc' = "checked"
    /\ UNCHANGED <<data, cleaned, result, dumped, encoded, reparsed, text>>

\* DepPath
ValidateDepPath ==
    /\ pc = "text"
    /\ verdict' = [type |-> "DepPath", ok |-> Validate(TDepPath, PyStr(text)).ok]
    /\ pc' = "checked"
    /\ UNCHANGED <<data, cleaned, result, dumped, encoded, reparsed, text>>

\* RelPath | DepPath, as an element of ContractType.sources
ValidateSourcePath ==
    /\ pc = "text"
    /\ verdict' = [type |-> "RelPath | DepPath",
                   ok |-> Validate(TUnion(TRelPath, TDepPath), PyStr(text)).ok]
    /\ pc' = "checked"
    /\ UNCHANGED <<data, cleaned, result, dumped, encoded, reparsed, text>>

NextPath == ValidateRelPath \/ ValidateDepPath \/ ValidateSourcePath

SpecPath == InitPath /\ [][NextPath]_vars

(***************************************************************************)
(* What the claims speak of                                                *)
(***************************************************************************)
Decoded == pc \in {"decoded", "dumped", "encoded", "reparsed"}
Accepted == Decoded /\ result.kind = "Manifest"

KeySet(d) == {d.items[i].k : i \in 1..Len(d.items)}
Values(d) == {d.items[i].v : i \in 1..Len(d.items)}

\* The dict at a key of a document, empty when the key is missing.
Section(doc, name) ==
    IF Has(doc, S(name)) /\ IsDict(Attr(doc, name))
    THEN Attr(doc, name)
    ELSE PyDict(<<>>)

\* Every section of the document passes its own field validation.
SectionsValid(doc) == ~FieldValues("Manifest", doc, Len(ManifestFields)).errors

\* The contract types written in a document.
DocTypes(doc) == {ct \in Values(Section(doc, "types")) : IsDict(ct)}

\* Some contract type of the document names a compiler the document does
\* not declare.
NamesUndeclaredCompiler(doc) ==
    \E ct \in DocTypes(doc) :
       /\ Has(ct, S("compiler"))
       /\ Attr(ct, "compiler") \notin KeySet(Section(doc, "compilers"))

\* The source paths written in the contract types of a document.
DocPaths(doc) ==
    UNION { IF Has(ct, S("sources")) /\ IsList(Attr(ct, "sources"))
            THEN Range(Attr(ct, "sources").xs)
            ELSE {} : ct \in DocTypes(doc) }

\* A path resolves: a "./" path is a key of sources, any other path has a
\* "/" and what comes before its first "/" is a key of dependencies.
PathResolves(doc, path) ==
    LET cs == Chars(path.s)
    IN  IF Len(cs) >= 2 /\ cs[1] = "." /\ cs[2] = "/"
        THEN path \in KeySet(Section(doc, "sources"))
        ELSE \E i \in 1..Len(cs) :
                /\ cs[i] = "/"
                /\ \A j \in 1..(i - 1) : cs[j] # "/"
                /\ S(Join(SubSeq(cs, 1, i - 1))) \in
                      KeySet(Section(doc, "dependencies"))

\* C1: in every Manifest parse_obj returns, each contract type's compiler
\* is a key of compilers; a document with a type naming an undeclared
\* compiler is rejected.
C1_CompilersDeclared ==
    /\ Accepted =>
          \A ct \in Values(Attr(result.m, "types")) :
             Attr(ct, "compiler") \in KeySet(Attr(result.m, "compilers"))
    /\ Decoded /\ NamesUndeclaredCompiler(data) => result.kind # "Manifest"

C1_Witness ==
    /\ pc = "decoded"
    /\ SectionsValid(data)
    /\ NamesUndeclaredCompiler(data)
    /\ KeySet(Section(data, "compilers")) # {}
    /\ result.kind = "ValidationError"

\* C2: a document whose sections validate and whose types name declared
\* compilers is accepted exactly when every source path of every type
\* resolves.
C2_PathsResolve ==
    pc = "decoded" /\ SectionsValid(data) /\ ~NamesUndeclaredCompiler(data)
       => (result.kind = "Manifest"
             <=> \A path \in DocPaths(data) : PathResolves(data, path))

C2_Witness ==
    /\ pc = "decoded"
    /\ result.kind = "Manifest"
    /\ {S("./a.s"), S("depA/a.s")} \subseteq DocPaths(data)
    /\ S("depA") \in KeySet(Section(data, "dependencies"))

\* A model instance as plain data, every field kept: two instances are
\* structurally equal when these are equal.
RECURSIVE Plain(_)
Plain(v) ==
    CASE v.t = "model" ->
           PyDict([i \in 1..Len(v.items) |->
                     Item(v.items[i].k, Plain(v.items[i].v))])
      [] v.t = "dict" ->
           PyDict([i \in 1..Len(v.items) |->
                     Item(v.items[i].k, Plain(v.items[i].v))])
      [] v.t = "list" -> PyList([i \in 1..Len(v.xs) |-> Plain(v.xs[i])])
      [] OTHER -> v

\* The deployments of the contract types of a manifest.
Deployments(m) ==
    {Attr(ct, "deployments") : ct \in Values(Attr(m, "types"))}

\* The keys of a Source entry that the model does not declare.
ExtraKeys(cls, d) == {k \in KeySet(d) : ~IsField(cls, k)}

\* C3: decoding the output of json() succeeds and gives a Manifest
\* structurally equal to the one encoded.
C3_RoundTrip ==
    pc = "reparsed" =>
       /\ reparsed.kind = "Manifest"
       /\ PyEq(Plain(reparsed.m), Plain(result.m))
       /\ ModelEq(reparsed.m, result.m)

\* A manifest with an integer chain id, an extension field on a Source and
\* default-valued fields has been encoded and decoded again.
C3_Witness ==
    /\ pc = "reparsed"
    /\ \E dep \in Deployments(result.m) : PyInt(10) \in KeySet(dep)
    /\ \E src \in Values(Attr(result.m, "sources")) :
          ExtraKeys("Source", src) # {}
    /\ Attr(result.m, "name") = S("")
    /\ ~Has(JsonLoads(encoded), S("name"))

\* C4: for a cleaned document that parse_obj accepts, dict() equals the
\* document.
C4_DictEqualsData ==
    cleaned /\ pc = "dumped" => PyEq(dumped, data)

\* The member of a JSON object at a key.
JHas(x, k) == \E i \in 1..Len(x.members) : x.members[i].k = k
JGet(x, k) == x.members[CHOOSE i \in 1..Len(x.members) : x.members[i].k = k].v

\* Every undeclared key of every Source entry of the document is in the
\* output with its value.
SourceExtrasKept ==
    \A it \in Range(Section(data, "sources").items) :
       \A k \in ExtraKeys("Source", it.v) :
          /\ JHas(encoded, "sources")
          /\ JHas(JGet(encoded, "sources"), it.k.s)
          /\ JHas(JGet(JGet(encoded, "sources"), it.k.s), k.s)
          /\ JGet(JGet(JGet(encoded, "sources"), it.k.s), k.s)
                = JsonDumps(Get(it.v, k))

\* Every undeclared top-level key of the document is in the output with
\* its value.
TopExtrasKept ==
    \A k \in ExtraKeys("Manifest", data) :
       JHas(encoded, k.s) /\ JGet(encoded, k.s) = JsonDumps(Get(data, k))

\* C5 as claimed: undeclared fields survive decode then encode at the top
\* level and inside each Source entry.
C5_ExtrasPreserved ==
    pc = "encoded" => TopExtrasKept /\ SourceExtrasKept

\* C5 as amended: undeclared fields inside each Source entry survive
\* decode then encode; undeclared top-level fields are dropped.
C5_SourceExtrasPreserved ==
    pc = "encoded" =>
       /\ SourceExtrasKept
       /\ \A k \in ExtraKeys("Manifest", data) : ~JHas(encoded, k.s)

C5_Witness ==
    /\ pc = "encoded"
    /\ ExtraKeys("Manifest", data) # {}
    /\ \E src \in Values(Section(data, "sources")) :
          S("license") \in ExtraKeys("Source", src)

\* The keys of a JSON object, as written.
MemberKeys(x) == [i \in 1..Len(x.members) |-> x.members[i].k]

\* The keys ascend as strings, and as the integers they write.
Lexicographic(keys) ==
    \A i \in 1..(Len(keys) - 1) : StrLess(Chars(keys[i]), Chars(keys[i + 1]))

Numeric(keys) ==
    \A i \in 1..(Len(keys) - 1) :
       IntOf(Chars(keys[i])) < IntOf(Chars(keys[i + 1]))

\* Every object of a JSON text has its keys in lexicographic order.
RECURSIVE AllLexicographic(_)
AllLexicographic(x) ==
    CASE x.j = "object" ->
           /\ Lexicographic(MemberKeys(x))
           /\ \A i \in 1..Len(x.members) : AllLexicographic(x.members[i].v)
      [] x.j = "array" -> \A i \in 1..Len(x.xs) : AllLexicographic(x.xs[i])
      [] OTHER -> TRUE

\* The deployments objects of an encoded manifest.
EncodedDeployments(x) ==
    IF JHas(x, "types")
    THEN { JGet(ct.v, "deployments") :
             ct \in {c \in Range(JGet(x, "types").members) :
                        JHas(c.v, "deployments")} }
    ELSE {}

\* Every object of an encoded manifest has its keys in lexicographic
\* order, but for the deployments objects.
RECURSIVE LexicographicButDeployments(_, _)
LexicographicButDeployments(x, deployments) ==
    CASE x.j = "object" ->
           /\ x \in deployments \/ Lexicographic(MemberKeys(x))
           /\ \A i \in 1..Len(x.members) :
                 LexicographicButDeployments(x.members[i].v, deployments)
      [] x.j = "array" ->
           \A i \in 1..Len(x.xs) :
              LexicographicButDeployments(x.xs[i], deployments)
      [] OTHER -> TRUE

\* The documents of OrderDocuments that hold the mappings of data,
\* inserted in any order.
Reorderings == {d \in OrderDocuments : PyEq(d, data)}

SameOutputInAnyOrder ==
    data \in OrderDocuments =>
       \A d \in Reorderings :
          /\ parse_obj(d).kind = "Manifest"
          /\ json(parse_obj(d).m) = encoded

\* C6 as claimed: json() writes the keys of every mapping in lexicographic
\* order of the key as written, so that the order of insertion does not
\* show in the output.
C6_KeysLexicographic ==
    pc = "encoded" => AllLexicographic(encoded) /\ SameOutputInAnyOrder

\* C6 as amended: json() writes the chain ids of a deployments mapping in
\* ascending numeric order and the keys of every other mapping in
\* lexicographic order, so that the order of insertion does not show in
\* the output.
C6_KeysSorted ==
    pc = "encoded" =>
       /\ LexicographicButDeployments(encoded, EncodedDeployments(encoded))
       /\ \A dep \in EncodedDeployments(encoded) :
             Numeric(MemberKeys(dep))
       /\ SameOutputInAnyOrder

C6_Witness ==
    /\ pc = "encoded"
    /\ data \in OrderDocuments
    /\ Cardinality(Reorderings) > 1
    /\ \E dep \in Deployments(result.m) : Keys(dep) = <<PyInt(10), PyInt(2)>>
    /\ \E dep \in EncodedDeployments(encoded) : MemberKeys(dep) = <<"2", "10">>

\* No field of an output of dict() holds its default, at any depth.
RECURSIVE NoDefaults(_, _)
NoDefaults(v, type) ==
    CASE type.kind = "model" /\ IsDict(v) ->
           \A i \in 1..Len(Fields(type.cls)) :
              LET f == Fields(type.cls)[i]
              IN  Has(v, f.name) =>
                     /\ f.required \/ ~PyEq(Get(v, f.name), f.default)
                     /\ NoDefaults(Get(v, f.name), f.type)
      [] type.kind = "mapping" /\ IsDict(v) ->
           \A i \in 1..Len(v.items) : NoDefaults(v.items[i].v, type.val)
      [] OTHER -> TRUE

\* C7: dict() and json() leave out every field that holds its default, at
\* the top level and inside the nested entities.
C7_DefaultsOmitted ==
    /\ pc \in {"dumped", "encoded", "reparsed"} =>
          NoDefaults(dumped, TModel("Manifest"))
    /\ pc \in {"encoded", "reparsed"} =>
          NoDefaults(JsonLoads(encoded), TModel("Manifest"))

\* A Manifest with metadata {} and dependencies {} has been encoded.
C7_Witness ==
    /\ pc = "encoded"
    /\ Has(data, S("metadata")) /\ Attr(data, "metadata") = PyDict(<<>>)
    /\ Has(data, S("dependencies")) /\ Attr(data, "dependencies") = PyDict(<<>>)
    /\ ~JHas(encoded, "metadata")
    /\ ~JHas(encoded, "dependencies")

\* The path patterns with an extension of one letter or more:
\* "^\./[A-Za-z0-9./]*\.[a-z]+$" and "^[A-Za-z0-9./]*\.[a-z]+$".
RelPathWithExtension(s) ==
    \E n \in DollarEnds(s) : \E i \in 3..(n - 1) :
       /\ s[1] = "."
       /\ s[2] = "/"
       /\ s[i] = "."
       /\ AllIn(s, 3, i - 1, PathChars)
       /\ AllIn(s, i + 1, n, Lower)

DepPathWithExtension(s) ==
    \E n \in DollarEnds(s) : \E i \in 1..(n - 1) :
       /\ s[i] = "."
       /\ AllIn(s, 1, i - 1, PathChars)
       /\ AllIn(s, i + 1, n, Lower)

\* C8: a string is accepted as a source path exactly when it matches the
\* pattern with a lowercase extension of one letter or more.
C8_LowercaseExtension ==
    pc = "checked" =>
       (verdict.ok <=>
          CASE verdict.type = "RelPath" -> RelPathWithExtension(Chars(text))
            [] verdict.type = "DepPath" -> DepPathWithExtension(Chars(text))
            [] OTHER -> \/ RelPathWithExtension(Chars(text))
                        \/ DepPathWithExtension(Chars(text)))

\* A chain id as JSON writes it: digits only.
IsChainId(key) ==
    IsStr(key) /\ key.s # "" /\ \A c \in Range(Chars(key.s)) : c \in Digit

\* The deployments written in the contract types of a document.
DocDeployments(doc) ==
    { Attr(ct, "deployments") :
        ct \in {c \in DocTypes(doc) :
                   Has(c, S("deployments")) /\ IsDict(Attr(c, "deployments"))} }

\* C9: in every Manifest parse_obj returns, every key of deployments is a
\* non-negative integer and every value a list of valid addresses; a
\* document with a negative or non-integer key is rejected.
C9_ChainIds ==
    /\ Accepted =>
          \A dep \in Deployments(result.m) : \A it \in Range(dep.items) :
             /\ IsInt(it.k) /\ it.k.n >= 0
             /\ IsList(it.v)
             /\ \A a \in Range(it.v.xs) : IsStr(a) /\ IsAddress(Chars(a.s))
    /\ Decoded =>
          \A dep \in DocDeployments(data) :
             (\E k \in KeySet(dep) : ~IsChainId(k)) => result.kind # "Manifest"

\* C10: parse_obj returns a Manifest that satisfies every field rule and
\* both cross-reference rules, or raises a validation error.
C10_AllOrNothing ==
    Decoded =>
       \/ result.kind = "ValidationError"
       \/ /\ result.kind = "Manifest"
          /\ SectionsValid(data)
          /\ ~NamesUndeclaredCompiler(data)
          /\ \A path \in DocPaths(data) : PathResolves(data, path)

====
